---- MODULE Spec2Model ----
(***************************************************************************)
(* A model of the "All API Types Example" application (src/main.py): the   *)
(* request/response handlers (REST, composite, webhook, JSON-RPC), the     *)
(* WebSocket echo coroutine and the SSE generator, each connection running *)
(* as its own coroutine instance interleaved with the others.              *)
(***************************************************************************)
EXTENDS Integers, Sequences, FiniteSets, TLC

VARIABLES
    conn,     \* per connection: the coroutine's position and the frames on the wire
    idle,     \* per connection: time units spent waiting in receive_text
    last,     \* the most recent HTTP exchange (request and response)
    memo,     \* an exchange a client wrote down earlier, to compare with a retry
    stdout    \* the last line written to standard output

vars == <<conn, idle, last, memo, stdout>>

----------------------------------------------------------------------------
(* Bounds of the model *)

\* text frames a client sends on one WebSocket session
MaxFrames == 2
\* the idle timeout the specification configures, in time units
IdleTimeout == 1

\* the connection slots (WebSocket sessions and SSE subscriptions together)
ConnIds == {1, 2}
\* the text frames clients send
Texts == {"a", "b"}
\* the clock stops counting one unit past the timeout
MaxIdle == IdleTimeout + 1

----------------------------------------------------------------------------
(* JSON values.  Every value is a record of one shape; an object's members *)
(* are <<key, value>> pairs.                                               *)

Str(s) == [kind |-> "string", text |-> s, members |-> {}]
Num(s) == [kind |-> "number", text |-> s, members |-> {}]
Arr(s) == [kind |-> "array", text |-> s, members |-> {}]
Obj(m) == [kind |-> "object", text |-> "", members |-> m]
\* Python's None, which is what JSON null parses to and serialises from
None == [kind |-> "null", text |-> "null", members |-> {}]

Keys(v) == {m[1] : m \in v.members}

\* dict.get(key): the member's value, None when the key is missing
Get(v, key) ==
    IF key \in Keys(v) THEN (CHOOSE m \in v.members : m[1] = key)[2] ELSE None

\* the values clients put under "method" and "id"
MethodValues == {Str("ping"), Str("pong"), None}
IdValues == {Num("7"), Str("x")}

ObjectPayloads ==
    {Obj(ms \cup is) :
        ms \in {{}} \cup {{<<"method", m>>} : m \in MethodValues},
        is \in {{}} \cup {{<<"id", i>>} : i \in IdValues}}

\* JSON documents that are not objects
NonObjectPayloads == {Arr("[1]"), Num("7")}

\* a request body: its bytes either parse to a JSON value or do not
WellFormed(v) == [wellFormed |-> TRUE, value |-> v]
Malformed == [wellFormed |-> FALSE, value |-> None]
Bodies == {Malformed} \cup {WellFormed(v) : v \in ObjectPayloads \cup NonObjectPayloads}

\* bodies on which the handlers raise
FailingBodies == {Malformed} \cup {WellFormed(v) : v \in NonObjectPayloads}

Requests ==
    [path : {"/rest", "/composite"}, body : {Malformed}]
        \cup [path : {"/webhook", "/rpc"}, body : Bodies]

----------------------------------------------------------------------------
(* Responses.  A handler that returns gives 200 and its JSON; a handler    *)
(* that raises is answered by the framework's 500.                         *)

Ok(v) == [status |-> 200, raised |-> "none", body |-> v]
ServerError(exc) ==
    [status |-> 500, raised |-> exc, body |-> Str("Internal Server Error")]

\* await request.json(): json.loads of the body
RequestJson(request) ==
    IF request.body.wellFormed
    THEN [raised |-> "none", value |-> request.body.value]
    ELSE [raised |-> "JSONDecodeError", value |-> None]

rest_example == Ok(Obj({<<"message", Str("Hello from REST API!")>>}))

composite ==
    Ok(Obj({<<"user", Obj({<<"id", Num("1")>>, <<"name", Str("Alice")>>})>>,
            <<"orders", Arr("[{id:101,item:Book},{id:102,item:Laptop}]")>>}))

\* the line print("Webhook received:", payload) writes
WebhookLine(payload) == <<"Webhook received:", payload>>

\* what webhook_listener prints: nothing when request.json() raised
WebhookPrints(request) ==
    IF RequestJson(request).raised = "none"
    THEN WebhookLine(RequestJson(request).value)
    ELSE <<>>

webhook_listener(request) ==
    LET parsed == RequestJson(request) IN
    IF parsed.raised # "none" THEN ServerError(parsed.raised)
    ELSE Ok(Obj({<<"status", Str("received")>>, <<"data", parsed.value>>}))

\* {"jsonrpc": "2.0", "result": "pong", "id": ...}
PongResult(id) ==
    Ok(Obj({<<"jsonrpc", Str("2.0")>>, <<"result", Str("pong")>>, <<"id", id>>}))

\* {"jsonrpc": "2.0", "error": "Method not found", "id": ...}
MethodNotFound(id) ==
    Ok(Obj({<<"jsonrpc", Str("2.0")>>, <<"error", Str("Method not found")>>,
            <<"id", id>>}))

\* faulty variant: the id is not echoed
rpc_endpoint_drops_id(request) ==
    LET parsed == RequestJson(request)
        data == parsed.value
    IN  IF parsed.raised # "none" THEN ServerError(parsed.raised)
        ELSE IF data.kind # "object" THEN ServerError("AttributeError")
        ELSE IF Get(data, "method") = Str("ping") THEN PongResult(None)
        ELSE MethodNotFound(Get(data, "id"))

\* faulty variant: data["method"] in place of data.get("method")
rpc_endpoint_subscript(request) ==
    LET parsed == RequestJson(request)
        data == parsed.value
    IN  IF parsed.raised # "none" THEN ServerError(parsed.raised)
        ELSE IF data.kind # "object" THEN ServerError("TypeError")
        ELSE IF "method" \notin Keys(data) THEN ServerError("KeyError")
        ELSE IF Get(data, "method") = Str("ping") THEN PongResult(Get(data, "id"))
        ELSE MethodNotFound(Get(data, "id"))

\* faulty variant: the answer to the previous call is kept and given again
rpc_endpoint_cached(request) ==
    LET parsed == RequestJson(request)
        data == parsed.value
    IN  IF parsed.raised # "none" THEN ServerError(parsed.raised)
        ELSE IF data.kind # "object" THEN ServerError("AttributeError")
        ELSE IF last.req.path = "/rpc" /\ last.resp.status = 200 THEN last.resp
        ELSE IF Get(data, "method") = Str("ping") THEN PongResult(Get(data, "id"))
        ELSE MethodNotFound(Get(data, "id"))

rpc_endpoint(request) ==
    LET parsed == RequestJson(request)
        data == parsed.value
    IN  IF parsed.raised # "none" THEN ServerError(parsed.raised)
        ELSE IF data.kind # "object" THEN ServerError("AttributeError")
        ELSE IF Get(data, "method") = Str("ping") THEN PongResult(Get(data, "id"))
        ELSE MethodNotFound(Get(data, "id"))

\* the route table built by the decorators
Route(request) ==
    CASE request.path = "/rest" -> rest_example
      [] request.path = "/composite" -> composite
      [] request.path = "/webhook" -> webhook_listener(request)
      [] request.path = "/rpc" -> rpc_endpoint(request)

\* no request served yet
NoExchange ==
    [req |-> [path |-> "", body |-> Malformed],
     resp |-> [status |-> 0, raised |-> "none", body |-> None],
     out |-> <<>>]

\* one request served from start to finish
HandleRequest(request) ==
    /\ stdout' = IF request.path = "/webhook" /\ WebhookPrints(request) # <<>>
                 THEN WebhookPrints(request) ELSE stdout
    /\ last' = [req |-> request, resp |-> Route(request), out |-> stdout']
    /\ UNCHANGED <<conn, idle, memo>>

Request == \E request \in Requests : HandleRequest(request)

\* a request whose handler raises
FailingRequest ==
    \E request \in [path : {"/webhook", "/rpc"}, body : FailingBodies] :
        HandleRequest(request)

\* the client keeps the exchange it has just seen, to compare a later retry with
ClientKeepsResponse ==
    /\ last # NoExchange
    /\ memo # last
    /\ memo' = last
    /\ UNCHANGED <<conn, idle, last, stdout>>

----------------------------------------------------------------------------
(* Connections.  A slot is unused (kind "none"), a WebSocket session or an *)
(* SSE subscription; received and sent are the frames that crossed the     *)
(* wire in each direction.                                                 *)

Fresh == [kind |-> "none", pc |-> "none", received |-> <<>>, sent |-> <<>>,
          data |-> "", i |-> 0, code |-> "none"]

\* close codes receive_text reports: normal closure, and a dropped connection
NormalClosure == "1000 normal closure"
AbnormalClosure == "1006 abnormal closure"
CloseCodes == {NormalClosure, AbnormalClosure}

\* f"You said: {data}"
YouSaid(data) == "You said: " \o data

\* range(5)
StreamLen == 5

\* f"data: Server message {i}\n\n"
SseFrame(i) == "data: Server message " \o ToString(i) \o "\n\n"

\* faulty variant: the loop runs one pass too many
RangeHasNextInclusive(i) == i <= StreamLen

\* the for loop has another value to give
RangeHasNext(i) == i < StreamLen

\* faulty variant: one counter at module level, shared by every subscription
SharedIndex(c) ==
    LET RECURSIVE Total(_)
        Total(S) == IF S = {} THEN 0
                    ELSE LET d == CHOOSE x \in S : TRUE
                         IN  (IF conn[d].kind = "sse" THEN Len(conn[d].sent) ELSE 0)
                                + Total(S \ {d})
    IN  Total(ConnIds)

\* the loop variable of connection c's own generator instance
LoopIndex(c) == conn[c].i

\* faulty variant: the exception of one session takes every WebSocket session down
AfterCloseAll(c, code) ==
    [d \in ConnIds |->
        IF d = c \/ conn[d].kind = "ws"
        THEN [conn[d] EXCEPT !.pc = "closed", !.code = code]
        ELSE conn[d]]

\* the connections once the coroutine of c has ended by an exception
AfterClose(c, code) ==
    [conn EXCEPT ![c] = [@ EXCEPT !.pc = "closed", !.code = code]]

\* a client opens /ws: the framework starts websocket_endpoint
WsConnect(c) ==
    /\ conn[c].kind = "none"
    /\ conn' = [conn EXCEPT ![c] = [Fresh EXCEPT !.kind = "ws", !.pc = "accept"]]
    /\ UNCHANGED <<idle, last, memo, stdout>>

\* await websocket.accept()
WsAccept(c) ==
    /\ conn[c].kind = "ws" /\ conn[c].pc = "accept"
    /\ conn' = [conn EXCEPT ![c].pc = "receive"]
    /\ UNCHANGED <<idle, last, memo, stdout>>

\* data = await websocket.receive_text(), a text frame arriving
WsReceiveText(c, d) ==
    /\ conn[c].kind = "ws" /\ conn[c].pc = "receive"
    /\ Len(conn[c].received) < MaxFrames
    /\ conn' = [conn EXCEPT ![c] = [@ EXCEPT !.pc = "send", !.data = d,
                                              !.received = Append(@, d)]]
    /\ idle' = [idle EXCEPT ![c] = 0]
    /\ UNCHANGED <<last, memo, stdout>>

\* await websocket.receive_text() raising WebSocketDisconnect: nothing catches
\* it, the coroutine ends
WsDisconnect(c, code) ==
    /\ conn[c].kind = "ws" /\ conn[c].pc = "receive"
    /\ conn' = AfterClose(c, code)
    /\ idle' = [idle EXCEPT ![c] = 0]
    /\ UNCHANGED <<last, memo, stdout>>

\* faulty variant: the reply goes out ahead of the replies already queued
WsSendTextFirst(c) ==
    /\ conn[c].kind = "ws" /\ conn[c].pc = "send"
    /\ conn' = [conn EXCEPT ![c] = [@ EXCEPT !.pc = "receive",
                                              !.sent = <<YouSaid(conn[c].data)>> \o @]]
    /\ UNCHANGED <<idle, last, memo, stdout>>

\* await websocket.send_text(f"You said: {data}")
WsSendText(c) ==
    /\ conn[c].kind = "ws" /\ conn[c].pc = "send"
    /\ conn' = [conn EXCEPT ![c] = [@ EXCEPT !.pc = "receive",
                                              !.sent = Append(@, YouSaid(conn[c].data))]]
    /\ UNCHANGED <<idle, last, memo, stdout>>

\* await websocket.send_text(...) raising because the client has gone
WsSendFail(c) ==
    /\ conn[c].kind = "ws" /\ conn[c].pc = "send"
    /\ conn' = AfterClose(c, AbnormalClosure)
    /\ UNCHANGED <<idle, last, memo, stdout>>

\* a time unit passes while the coroutine waits in receive_text
Tick(c) ==
    /\ conn[c].kind = "ws" /\ conn[c].pc = "receive"
    /\ idle[c] < MaxIdle
    /\ idle' = [idle EXCEPT ![c] = @ + 1]
    /\ UNCHANGED <<conn, last, memo, stdout>>

\* a client opens /sse: sse_endpoint makes a new event_stream()
SseSubscribe(c) ==
    /\ conn[c].kind = "none"
    /\ conn' = [conn EXCEPT ![c] = [Fresh EXCEPT !.kind = "sse", !.pc = "yield"]]
    /\ UNCHANGED <<idle, last, memo, stdout>>

\* yield f"data: Server message {i}\n\n"
SseYield(c) ==
    /\ conn[c].kind = "sse" /\ conn[c].pc = "yield"
    /\ conn' = [conn EXCEPT ![c] = [@ EXCEPT !.pc = "sleep",
                                              !.sent = Append(@, SseFrame(LoopIndex(c)))]]
    /\ UNCHANGED <<idle, last, memo, stdout>>

\* await asyncio.sleep(1), then the for loop's next step: the next i, or the end
SseSleep(c) ==
    /\ conn[c].kind = "sse" /\ conn[c].pc = "sleep"
    /\ conn' = [conn EXCEPT ![c] = [@ EXCEPT !.i = @ + 1,
                    !.pc = IF RangeHasNext(conn[c].i + 1) THEN "yield" ELSE "done"]]
    /\ UNCHANGED <<idle, last, memo, stdout>>

WebSocket ==
    \E c \in ConnIds :
        \/ WsConnect(c)
        \/ WsAccept(c)
        \/ \E d \in Texts : WsReceiveText(c, d)
        \/ \E code \in CloseCodes : WsDisconnect(c, code)
        \/ WsSendText(c)
        \/ WsSendFail(c)

Sse == \E c \in ConnIds : SseSubscribe(c) \/ SseYield(c) \/ SseSleep(c)

Clock == \E c \in ConnIds : Tick(c)

----------------------------------------------------------------------------
(* Specifications *)

Init ==
    /\ conn = [c \in ConnIds |-> Fresh]
    /\ idle = [c \in ConnIds |-> 0]
    /\ last = NoExchange
    /\ memo = NoExchange
    /\ stdout = <<>>

\* the request/response handlers and a client retrying requests
NextHttp == Request \/ ClientKeepsResponse
SpecHttp == Init /\ [][NextHttp]_vars

\* the streaming connections, any number of them interleaved
NextSessions == WebSocket \/ Sse
SpecSessions == Init /\ [][NextSessions]_vars

\* the connections, with requests whose handler raises in between
NextIsolation == WebSocket \/ Sse \/ FailingRequest
SpecIsolation == Init /\ [][NextIsolation]_vars

\* the WebSocket sessions with time passing
NextTimed == WebSocket \/ Clock
SpecTimed == Init /\ [][NextTimed]_vars

Next == Request \/ ClientKeepsResponse \/ WebSocket \/ Sse \/ Clock
Spec == Init /\ [][Next]_vars

----------------------------------------------------------------------------
(* Properties *)

WsConns == {c \in ConnIds : conn[c].kind = "ws"}
SseConns == {c \in ConnIds : conn[c].kind = "sse"}

\* the last exchange is a JSON-RPC call whose body is a JSON object
RpcObjectCall ==
    /\ last.req.path = "/rpc"
    /\ last.req.body.wellFormed
    /\ last.req.body.value.kind = "object"

\* the id the request carries, null when it carries none
RequestId(v) ==
    IF \E m \in v.members : m[1] = "id"
    THEN (CHOOSE m \in v.members : m[1] = "id")[2]
    ELSE None

CallsPing(v) == <<"method", Str("ping")>> \in v.members

\* C1: a JSON-object request to /rpc whose method is "ping" is answered exactly
\* {jsonrpc: "2.0", result: "pong", id: <the request's id, null without one>},
\* with no error field.
C1_PingReturnsPong ==
    (RpcObjectCall /\ CallsPing(last.req.body.value)) =>
        /\ last.resp.status = 200
        /\ last.resp.raised = "none"
        /\ last.resp.body =
              Obj({<<"jsonrpc", Str("2.0")>>, <<"result", Str("pong")>>,
                   <<"id", RequestId(last.req.body.value)>>})
        /\ "error" \notin Keys(last.resp.body)

\* the scenario {"method":"ping","id":7} -> {"jsonrpc":"2.0","result":"pong","id":7}
C1_Witness ==
    /\ last.req = [path |-> "/rpc",
                   body |-> WellFormed(Obj({<<"method", Str("ping")>>,
                                            <<"id", Num("7")>>}))]
    /\ last.resp.body = Obj({<<"jsonrpc", Str("2.0")>>, <<"result", Str("pong")>>,
                             <<"id", Num("7")>>})

\* C2: a JSON-object request to /rpc whose method is absent or is not "ping" is
\* answered {jsonrpc: "2.0", error: "Method not found", id: <the request's id,
\* null without one>}, with no result field.
C2_OtherMethodNotFound ==
    (RpcObjectCall /\ ~CallsPing(last.req.body.value)) =>
        /\ last.resp.status = 200
        /\ last.resp.raised = "none"
        /\ last.resp.body =
              Obj({<<"jsonrpc", Str("2.0")>>, <<"error", Str("Method not found")>>,
                   <<"id", RequestId(last.req.body.value)>>})
        /\ "result" \notin Keys(last.resp.body)

\* a request with no method, carrying the id "x"
C2_Witness ==
    /\ last.req = [path |-> "/rpc", body |-> WellFormed(Obj({<<"id", Str("x")>>}))]
    /\ last.resp.body = Obj({<<"jsonrpc", Str("2.0")>>,
                             <<"error", Str("Method not found")>>,
                             <<"id", Str("x")>>})

\* C3: every request to /rpc or /webhook, whatever its body, ends in a well-formed
\* response (for /rpc a JSON-RPC object with jsonrpc "2.0" and an error field when
\* the body is no usable call); no handler raises an unhandled exception.
C3_NoUnhandledException ==
    (last.req.path \in {"/rpc", "/webhook"}) =>
        /\ last.resp.raised = "none"
        /\ (last.req.path = "/rpc" /\ ~RpcObjectCall) =>
              /\ <<"jsonrpc", Str("2.0")>> \in last.resp.body.members
              /\ "error" \in Keys(last.resp.body)

\* the five messages of one subscription, written out
FiveMessages ==
    <<"data: Server message 0\n\n", "data: Server message 1\n\n",
      "data: Server message 2\n\n", "data: Server message 3\n\n",
      "data: Server message 4\n\n">>

\* C4: one SSE subscription produces "data: Server message <i>\n\n" for
\* i = 0, 1, 2, 3, 4 in that order and then ends: what it has sent is always the
\* first messages of that list, never a sixth, and all five once it has ended.
C4_SseFiveMessages ==
    \A c \in SseConns :
        /\ Len(conn[c].sent) <= 5
        /\ conn[c].sent = SubSeq(FiveMessages, 1, Len(conn[c].sent))
        /\ conn[c].pc = "done" => conn[c].sent = FiveMessages
        /\ Len(conn[c].sent) = 5 => conn[c].pc \in {"sleep", "done"}

C4_Witness ==
    \E c \in SseConns : conn[c].pc = "done" /\ Len(conn[c].sent) = 5

\* C5: on one WebSocket session the frames sent are "You said: d1", ...,
\* "You said: dn" for the frames d1, ..., dn received, in that order, one reply a
\* frame; the reply to a frame is sent before the next frame is received, so the
\* sent frames are never more than the received and at most one behind.
C5_WsRepliesInOrder ==
    \A c \in WsConns :
        /\ Len(conn[c].sent) <= Len(conn[c].received)
        /\ Len(conn[c].received) <= Len(conn[c].sent) + 1
        /\ \A k \in 1..Len(conn[c].sent) :
              conn[c].sent[k] = "You said: " \o conn[c].received[k]
        /\ conn[c].pc = "receive" => Len(conn[c].sent) = Len(conn[c].received)

\* two different frames, both answered
C5_Witness ==
    \E c \in WsConns :
        /\ conn[c].received = <<"a", "b">>
        /\ conn[c].sent = <<"You said: a", "You said: b">>

\* the session state of the specification that a coroutine position stands for
SessionState(c) ==
    CASE conn[c].pc = "none" -> "None"
      [] conn[c].pc = "accept" -> "Connecting"
      [] conn[c].pc \in {"receive", "send"} -> "Open"
      [] conn[c].pc = "closed" -> "Closed"
      [] OTHER -> "Streaming"

\* C6: a WebSocket session follows Connecting -> Open -> Draining -> Closed, with
\* Open -> Closed directly only on an abrupt disconnect or an error: no frame
\* crosses the wire before the accept completes, nothing changes once Closed, and
\* a close initiated while Open does not reach Closed without passing Draining.
C6_SessionStateMachine ==
    [][\A c \in ConnIds :
          (conn[c].kind = "ws" /\ conn'[c] # conn[c]) =>
            /\ SessionState(c) # "Closed"
            /\ SessionState(c) = "Connecting" =>
                  /\ SessionState(c)' = "Open"
                  /\ conn'[c].received = <<>> /\ conn'[c].sent = <<>>
            /\ (SessionState(c) = "Open" /\ SessionState(c)' = "Closed") =>
                  conn'[c].code # NormalClosure]_vars

\* C7: a WebSocket session waiting for input is not Open beyond the idle timeout:
\* by then it has been closed with reason Timeout.
C7_IdleSessionTimesOut ==
    \A c \in WsConns : conn[c].pc = "receive" => idle[c] <= IdleTimeout

\* what a connection has sent is what it would have sent alone
SoloOutputs(c) ==
    /\ conn[c].kind = "ws" =>
          /\ Len(conn[c].sent) \in {Len(conn[c].received), Len(conn[c].received) - 1}
          /\ \A k \in 1..Len(conn[c].sent) :
                conn[c].sent[k] = "You said: " \o conn[c].received[k]
    /\ conn[c].kind = "sse" =>
          conn[c].sent = SubSeq(FiveMessages, 1, Len(conn[c].sent))

\* a session closing, or a request failing, in this step
Closes(c) == conn[c].pc # "closed" /\ conn'[c].pc = "closed"
RequestFails == last' # last /\ last'.resp.status = 500

\* C8: a failure is confined to its session: the step in which one WebSocket
\* session closes or fails, or one request's handler fails, leaves every other
\* connection as it was, and every connection's output stays the output it
\* produces alone, whatever the interleaving.
C8_FailureConfined ==
    /\ [](\A c \in ConnIds : SoloOutputs(c))
    /\ [][/\ \A c \in ConnIds :
               Closes(c) => \A d \in ConnIds \ {c} : conn'[d] = conn[d]
          /\ RequestFails => conn' = conn]_vars

\* one session has failed, a request has failed, and another connection has
\* still delivered everything
C8_Witness ==
    /\ last.resp.status = 500
    /\ \E c, d \in ConnIds :
          /\ c # d
          /\ conn[c].pc = "closed" /\ conn[c].code = AbnormalClosure
          /\ \/ conn[d].kind = "sse" /\ conn[d].pc = "done" /\ Len(conn[d].sent) = 5
             \/ conn[d].kind = "ws" /\ conn[d].pc = "receive"
                  /\ Len(conn[d].sent) = MaxFrames

C10_SseStreamsIndependent ==
    \A c \in SseConns :
        /\ Len(conn[c].sent) = conn[c].i + (IF conn[c].pc = "sleep" THEN 1 ELSE 0)
        /\ \A k \in 1..Len(conn[c].sent) : conn[c].sent[k] = FiveMessages[k]
        /\ \A d \in SseConns \ {c} :
              \A k \in 1..Len(conn[c].sent) :
                  k <= Len(conn[d].sent) => conn[d].sent[k] = conn[c].sent[k]

\* two subscriptions open at once, at different places of their sequences
C10_Witness ==
    \E c, d \in SseConns :
        /\ c # d
        /\ Len(conn[c].sent) = 4
        /\ Len(conn[d].sent) = 1

====
